---------------------------- MODULE Spec2Model ----------------------------
(***************************************************************************)
(* Resumable download loop of audible-dl (src/src/main.rs).                *)
(*                                                                         *)
(* The transfer task probes the output file, sends a range request,        *)
(* validates the Content-Range of the answer, appends the body to the file *)
(* and starts over after a mid-stream error.  A second task ticks the      *)
(* progress bar.  Text (the Range header that is sent, the Content-Range   *)
(* header that is received) is a sequence of one-character strings, so     *)
(* that formatting and parsing are computed character by character.        *)
(***************************************************************************)
EXTENDS Integers, Sequences, FiniteSets, TLC

(***************************************************************************)
(* Bounds of the model.                                                    *)
(***************************************************************************)
\* u64 is modelled with U64Bits bits: values 0 .. 2^U64Bits - 1.
U64Bits == 4
\* Largest size of the remote resource, in bytes.
MaxTotal == 3
\* Largest number of bytes one call of chunk() delivers.
MaxChunk == 2
\* Largest number of mid-stream errors injected in one run.
MaxRetries == 2

U64Max == 2 ^ U64Bits - 1

\* The program is run once and, on the file that run left, once again.
Runs == {1, 2}

(***************************************************************************)
(* Program constants.                                                      *)
(***************************************************************************)
PARTIAL_CONTENT == 206
RANGE_NOT_SATISFIABLE == 416
\* Two statuses the program has no arm for.
StatusOk == 200
StatusNotFound == 404

(***************************************************************************)
(* Text.                                                                   *)
(***************************************************************************)
DigitChars == <<"0", "1", "2", "3", "4", "5", "6", "7", "8", "9">>

IsDigit(c) == \E i \in 1..10 : DigitChars[i] = c

DigitValue(c) == (CHOOSE i \in 1..10 : DigitChars[i] = c) - 1

\* A byte outside visible ASCII: HeaderValue::to_str rejects it.
NonAsciiChar == "0x80"

\* format!("{}", n) of an unsigned integer.
RECURSIVE ToDecimal(_)
ToDecimal(n) ==
    IF n < 10 THEN <<DigitChars[n + 1]>>
    ELSE ToDecimal(n \div 10) \o <<DigitChars[(n % 10) + 1]>>

\* RangeHeader with the offset left out: every request asks from byte 0.
RangeHeaderFromZero(start) ==
    <<"b", "y", "t", "e", "s", "=">> \o ToDecimal(0) \o <<"-">>

\* format!("bytes={}-", start)
RangeHeader(start) ==
    <<"b", "y", "t", "e", "s", "=">> \o ToDecimal(start) \o <<"-">>

BytesPrefix == <<"b", "y", "t", "e", "s", " ">>

\* str::strip_prefix("bytes "): the rest of s, or None.
NoneStr == <<"None">>

StripPrefix(s) ==
    IF Len(s) >= Len(BytesPrefix) /\ SubSeq(s, 1, Len(BytesPrefix)) = BytesPrefix
    THEN SubSeq(s, Len(BytesPrefix) + 1, Len(s))
    ELSE NoneStr

\* str::split(['-', '/']): the fields between the separators, from left to
\* right; a string without separator is one field, an empty string too.
RECURSIVE SplitFrom(_, _, _)
SplitFrom(s, i, cur) ==
    IF i > Len(s) THEN <<cur>>
    ELSE IF s[i] \in {"-", "/"} THEN <<cur>> \o SplitFrom(s, i + 1, <<>>)
    ELSE SplitFrom(s, i + 1, Append(cur, s[i]))

Split(s) == SplitFrom(s, 1, <<>>)

\* str::parse::<u64>(): an optional '+', then one or more decimal digits,
\* accumulated with checked multiplication and addition.  -1 is Err.
ParseErr == -1

RECURSIVE ParseDigits(_, _, _)
ParseDigits(s, i, acc) ==
    IF i > Len(s) THEN acc
    ELSE IF ~IsDigit(s[i]) THEN ParseErr
    ELSE IF acc * 10 > U64Max THEN ParseErr
    ELSE IF acc * 10 + DigitValue(s[i]) > U64Max THEN ParseErr
    ELSE ParseDigits(s, i + 1, acc * 10 + DigitValue(s[i]))

ParseU64(s) ==
    IF Len(s) = 0 THEN ParseErr
    ELSE IF s[1] = "+"
         THEN IF Len(s) = 1 THEN ParseErr ELSE ParseDigits(s, 2, 0)
         ELSE ParseDigits(s, 1, 0)

\* The outcome of <ContentRange as FromStr>::from_str: Ok with the three
\* fields, Err, or a panic of the indexing parts[0], parts[1], parts[2].
CROk(a, b, c) == [tag |-> "Ok", start |-> a, end |-> b, total |-> c, err |-> "none"]
CRErr(e) == [tag |-> "Err", start |-> 0, end |-> 0, total |-> 0, err |-> e]
CRPanic(e) == [tag |-> "Panic", start |-> 0, end |-> 0, total |-> 0, err |-> e]

FromStr(s) ==
    LET rest == StripPrefix(s) IN
    IF rest = NoneStr THEN CRErr("Invalid Content-Range header")
    ELSE LET fields == Split(rest)
             parts == [i \in 1..Len(fields) |-> ParseU64(fields[i])]
         IN  IF \E i \in 1..Len(parts) : parts[i] = ParseErr
             THEN CRErr("ParseIntError")
             ELSE IF Len(parts) < 3 THEN CRPanic("index out of bounds")
             ELSE CROk(parts[1], parts[2], parts[3])


(***************************************************************************)
(* u64 arithmetic of the end check.                                        *)
(***************************************************************************)
\* content_range.total - 1 without overflow checks (release profile).
WrappingSub1(x) == (x - 1) % (U64Max + 1)

(***************************************************************************)
(* The remote resource and the server.                                     *)
(***************************************************************************)
\* The resource of size t: bytes 1, 2, .., t, all different.
Resource(t) == [i \in 1..t |-> i]

\* A byte that is not part of any resource.
Garbage == MaxTotal + 1

\* What is left of the resource from offset o on.
Remainder(o, t) == IF o < t THEN SubSeq(Resource(t), o + 1, t) ELSE <<>>

\* The offset a server reads from the Range header "bytes=<n>-" of a
\* request (ParseErr when it is not of that form).
RequestedOffset(h) ==
    IF Len(h) >= 8 /\ SubSeq(h, 1, 6) = <<"b", "y", "t", "e", "s", "=">> /\ h[Len(h)] = "-"
    THEN ParseDigits(SubSeq(h, 7, Len(h) - 1), 1, 0)
    ELSE ParseErr

\* "bytes <a>-<b>/<c>"
ContentRangeText(a, b, c) ==
    BytesPrefix \o ToDecimal(a) \o <<"-">> \o ToDecimal(b) \o <<"/">> \o ToDecimal(c)

Response(s, h, text, b) == [status |-> s, hasCR |-> h, cr |-> text, body |-> b]

NoRes == Response(0, FALSE, <<>>, <<>>)

\* A server that honours byte ranges: the rest of the resource as 206, or
\* 416 when the offset is not inside the resource; the whole resource as 200
\* when the request has no Range header it can read.
HonestResponse(o, t) ==
    IF o = ParseErr THEN Response(StatusOk, FALSE, <<>>, Resource(t))
    ELSE IF o < t
    THEN Response(PARTIAL_CONTENT, TRUE, ContentRangeText(o, t - 1, t), Remainder(o, t))
    ELSE Response(RANGE_NOT_SATISFIABLE, TRUE,
                  BytesPrefix \o <<"*", "/">> \o ToDecimal(t), <<>>)

\* The last byte position of a resource of size t (0 for an empty one).
LastPos(t) == IF t > 0 THEN t - 1 ELSE 0

\* Content-Range values of three numeric fields an arbitrary server may send
\* for a request at offset o: the right one, a wrong start, a wrong end, a
\* total of 0 (with end 0 and with the largest end), a total other than the
\* size of the resource.
NumericHeaders(o, t) ==
    { ContentRangeText(o, LastPos(t), t),
      ContentRangeText(o + 1, LastPos(t), t),
      ContentRangeText(o, t, t),
      ContentRangeText(o, 0, 0),
      ContentRangeText(o, U64Max, 0),
      ContentRangeText(o + 1, U64Max, 0),
      ContentRangeText(o, U64Max - 1, U64Max) }

\* Content-Range values that are not of the form bytes <n>-<n>/<n>: a wrong
\* prefix, a field that is no number, two fields, four fields, an empty
\* field, a number that does not fit, a byte that is no ASCII, nothing.
MalformedHeaders(o, t) ==
    { <<"b", "i", "t", "s", " ">> \o ToDecimal(o) \o <<"-", "0", "/", "1">>,
      BytesPrefix \o <<"x", "-", "0", "/", "1">>,
      BytesPrefix \o ToDecimal(o) \o <<"-">> \o ToDecimal(LastPos(t)),
      ContentRangeText(o, LastPos(t), t) \o <<"/", "9">>,
      BytesPrefix \o ToDecimal(o) \o <<"-", "/">> \o ToDecimal(t),
      BytesPrefix \o ToDecimal(o) \o <<"-", "0", "/">> \o ToDecimal(U64Max + 1),
      BytesPrefix \o ToDecimal(o) \o <<"-", "0", "/", "1">> \o <<NonAsciiChar>>,
      <<>> }

\* Every answer of a server that is not trusted: a status without header, a
\* 206 without header, a 206 with one of the headers above and the rest of
\* the resource as body, a 206 with the right header and a wrong body.
ArbitraryResponses(o, t) ==
    { Response(s, FALSE, <<>>, <<>>) :
        s \in {RANGE_NOT_SATISFIABLE, StatusOk, StatusNotFound} }
    \cup { Response(PARTIAL_CONTENT, FALSE, <<>>, Remainder(o, t)) }
    \cup { Response(PARTIAL_CONTENT, TRUE, h, Remainder(o, t)) :
             h \in NumericHeaders(o, t) \cup MalformedHeaders(o, t) }
    \cup { Response(PARTIAL_CONTENT, TRUE, ContentRangeText(o, LastPos(t), t),
                    <<Garbage>>) }

(***************************************************************************)
(* State.                                                                  *)
(***************************************************************************)
VARIABLES
    total,          \* size of the remote resource
    honest,         \* TRUE: the server honours byte ranges
    overflowChecks, \* TRUE: built with overflow checks (debug profile)
    file,           \* the output file: [exists, data]
    fileOpen,       \* the append handle of the current cycle is open
    pc,             \* where the transfer task is
    start,          \* the probed offset of the current cycle
    res,            \* the response of the current cycle
    chunk,          \* the chunk received and not yet written
    pb,             \* the progress bar: position, length, finished, style, message
    outcome,        \* "none", "Completed", "Failed", "Panicked"
    error,          \* the error value of Failed (or the panic message)
    rpc,            \* where the progress reporter task is
    requests,       \* the Range header of every request sent in this run
    probed,         \* the length of the file at every probe of this run
    fileAtProbe,    \* the file as it was at the latest probe
    fileAtStart,    \* the file as it was when this run started
    appended,       \* the chunks written whole in this run, one after the other
    retries,        \* mid-stream errors of this run
    runs            \* runs of the program so far

vars == <<total, honest, overflowChecks, file, fileOpen, pc, start, res, chunk, pb,
          outcome, error, rpc, requests, probed, fileAtProbe, fileAtStart,
          appended, retries, runs>>

env == <<total, honest, overflowChecks, runs>>

NoLength == -1

File(e, d) == [exists |-> e, data |-> d]

Absent == File(FALSE, <<>>)

NoError == [kind |-> "none", code |-> 0]

Error(k) == [kind |-> k, code |-> 0]

StatusError(code) == [kind |-> "Invalid status code", code |-> code]

\* ProgressBar::new_spinner(), set_message, set_style(style_init)
InitPb == [position |-> 0, length |-> NoLength, finished |-> FALSE,
           style |-> "init", message |-> "Initiating download..."]

\* The output files a run may find: none, a prefix of the resource (empty,
\* partial or complete), or a file that is not a prefix of it.
InitFiles(t) ==
    {Absent}
    \cup { File(TRUE, SubSeq(Resource(t), 1, k)) : k \in 0..t }
    \cup { File(TRUE, <<Garbage>>), File(TRUE, Append(Resource(t), Garbage)) }

Init ==
    /\ total \in 0..MaxTotal
    /\ honest \in BOOLEAN
    /\ overflowChecks \in BOOLEAN
    /\ file \in InitFiles(total)
    /\ fileOpen = FALSE
    /\ pc = "probe"
    /\ start = 0
    /\ res = NoRes
    /\ chunk = <<>>
    /\ pb = InitPb
    /\ outcome = "none"
    /\ error = NoError
    /\ rpc = "run"
    /\ requests = <<>>
    /\ probed = <<>>
    /\ fileAtProbe = file
    /\ fileAtStart = file
    /\ appended = <<>>
    /\ retries = 0
    /\ runs = 1

(***************************************************************************)
(* Terminal outcomes: main returns (or panics), the file handle is dropped.*)
(***************************************************************************)
\* pb.finish(): the bar is finished and its position moved to its length,
\* when it has one.
Finish(p) ==
    [p EXCEPT !.finished = TRUE,
              !.position = IF p.length # NoLength THEN p.length ELSE p.position]

Return(o, e) ==
    /\ pc' = "done"
    /\ outcome' = o
    /\ error' = e
    /\ fileOpen' = FALSE
    /\ rpc' = "dropped"

(***************************************************************************)
(* The transfer task, one action per stretch of code between two awaits.   *)
(***************************************************************************)
\* ProbeLen that does not look at the file.
ProbeLenZero(f) == 0

\* metadata(&output): the length of the file, 0 when there is none.
ProbeLen(f) == IF f.exists THEN Len(f.data) ELSE 0

\* Lines 97-103, metadata answers Ok or NotFound.
Probe ==
    /\ pc = "probe"
    /\ start' = ProbeLen(file)
    /\ probed' = Append(probed, Len(file.data))
    /\ fileAtProbe' = file
    /\ pc' = "send"
    /\ UNCHANGED <<env, file, fileOpen, res, chunk, pb, outcome, error, rpc,
                   requests, fileAtStart, appended, retries>>

\* Lines 97-103, metadata answers another error: it is propagated.
ProbeError ==
    /\ pc = "probe"
    /\ Return("Failed", Error("io: metadata"))
    /\ UNCHANGED <<env, file, start, res, chunk, pb, requests, probed,
                   fileAtProbe, fileAtStart, appended, retries>>

\* Lines 110-117: the request goes out with the Range header.
Send ==
    /\ pc = "send"
    /\ requests' = Append(requests, RangeHeader(start))
    /\ res' = NoRes
    /\ pc' = "head"
    /\ UNCHANGED <<env, file, fileOpen, start, chunk, pb, outcome, error, rpc,
                   probed, fileAtProbe, fileAtStart, appended, retries>>

\* SendError handled like an error of chunk(): after the delay the loop
\* starts again.
SendErrorRetried ==
    /\ pc = "head"
    /\ pc' = "sleep"
    /\ UNCHANGED <<env, file, fileOpen, start, res, chunk, pb, outcome, error, rpc,
                   requests, probed, fileAtProbe, fileAtStart, appended, retries>>

\* Line 118: send() fails before a status is there; the error is propagated.
SendError ==
    /\ pc = "head"
    /\ Return("Failed", Error("reqwest: send"))
    /\ UNCHANGED <<env, file, start, res, chunk, pb, requests, probed,
                   fileAtProbe, fileAtStart, appended, retries>>

\* StartMatches without the comparison.
StartMatchesAlways(cr, s) == TRUE

\* Line 138.
StartMatches(cr, s) == cr.start = s

\* Line 142: content_range.end != content_range.total - 1, in u64.  With
\* overflow checks the subtraction panics for total = 0, without them it
\* wraps.
EndCheck(cr, checks) ==
    IF cr.total = 0 /\ checks THEN "panic"
    ELSE IF cr.end # WrappingSub1(cr.total) THEN "invalid"
    ELSE "ok"

Verdict(n, e, t) == [next |-> n, error |-> e, total |-> t]

\* Lines 131-144: the header is fetched, converted, parsed and checked; cr
\* is what parsing its text gives.
ValidateRange(r, cr, s, checks) ==
    IF ~r.hasCR THEN Verdict("Failed", Error("Missing Content-Range header"), 0)
    ELSE IF \E i \in 1..Len(r.cr) : r.cr[i] = NonAsciiChar
    THEN Verdict("Failed", Error("ToStrError"), 0)
    ELSE IF cr.tag = "Err" THEN Verdict("Failed", Error(cr.err), 0)
    ELSE IF cr.tag = "Panic" THEN Verdict("Panicked", Error(cr.err), 0)
    ELSE IF ~StartMatches(cr, s)
    THEN Verdict("Failed", Error("Server returned invalid start offset"), 0)
    ELSE IF EndCheck(cr, checks) = "panic"
    THEN Verdict("Panicked", Error("attempt to subtract with overflow"), 0)
    ELSE IF EndCheck(cr, checks) = "invalid"
    THEN Verdict("Failed", Error("Server returned invalid end offset"), 0)
    ELSE Verdict("open", NoError, cr.total)

\* Classify without the arm for 416: it falls into the arm of the other
\* statuses.
ClassifyNo416(r, cr, s, checks) ==
    IF r.status = PARTIAL_CONTENT THEN ValidateRange(r, cr, s, checks)
    ELSE Verdict("Failed", StatusError(r.status), 0)

\* Classify with every status but 416 handled as 206.
ClassifyOtherAsPartial(r, cr, s, checks) ==
    IF r.status = RANGE_NOT_SATISFIABLE THEN Verdict("Completed", NoError, 0)
    ELSE ValidateRange(r, cr, s, checks)

\* Lines 120-128 and 131-144: what the response leads to.
Classify(r, cr, s, checks) ==
    IF r.status = PARTIAL_CONTENT THEN ValidateRange(r, cr, s, checks)
    ELSE IF r.status = RANGE_NOT_SATISFIABLE THEN Verdict("Completed", NoError, 0)
    ELSE Verdict("Failed", StatusError(r.status), 0)

\* The answers the server may give to the request with Range header h.
Responses(h) ==
    IF honest THEN {HonestResponse(RequestedOffset(h), total)}
    ELSE IF RequestedOffset(h) = ParseErr THEN {Response(StatusOk, FALSE, <<>>, <<>>)}
    ELSE ArbitraryResponses(RequestedOffset(h), total)

\* Lines 118-149: the head of the response arrives and is handled, from the
\* status up to the call of open.
Receive ==
    /\ pc = "head"
    /\ \E r \in Responses(requests[Len(requests)]) :
       \E cr \in {FromStr(r.cr)} :
       \E v \in {Classify(r, cr, start, overflowChecks)} :
          /\ res' = r
          /\ \/ /\ v.next = "open"
                /\ pb' = [pb EXCEPT !.style = "downloading", !.length = v.total,
                                    !.position = start]
                /\ pc' = "open"
                /\ UNCHANGED <<outcome, error, fileOpen, rpc>>
             \/ /\ v.next = "Completed"
                /\ pb' = Finish(pb)
                /\ Return("Completed", NoError)
             \/ /\ v.next \in {"Failed", "Panicked"}
                /\ pb' = pb
                /\ Return(v.next, v.error)
    /\ UNCHANGED <<env, file, start, chunk, requests, probed, fileAtProbe,
                   fileAtStart, appended, retries>>

\* Open that truncates the file instead of appending to it.
OpenTruncate ==
    /\ pc = "open"
    /\ file' = File(TRUE, <<>>)
    /\ fileOpen' = TRUE
    /\ pc' = "chunk"
    /\ UNCHANGED <<env, start, res, chunk, pb, outcome, error, rpc, requests,
                   probed, fileAtProbe, fileAtStart, appended, retries>>

\* Lines 152-156: open for append, creating the file when there is none.
Open ==
    /\ pc = "open"
    /\ file' = File(TRUE, file.data)
    /\ fileOpen' = TRUE
    /\ pc' = "chunk"
    /\ UNCHANGED <<env, start, res, chunk, pb, outcome, error, rpc, requests,
                   probed, fileAtProbe, fileAtStart, appended, retries>>

\* Line 156: open fails; the error is propagated.
OpenError ==
    /\ pc = "open"
    /\ Return("Failed", Error("io: open"))
    /\ UNCHANGED <<env, file, start, res, chunk, pb, requests, probed,
                   fileAtProbe, fileAtStart, appended, retries>>

Min(a, b) == IF a < b THEN a ELSE b

\* Lines 160-161: chunk() yields the next bytes of the body.
ChunkSome ==
    /\ pc = "chunk"
    /\ \E n \in 1..Min(MaxChunk, Len(res.body)) :
          /\ chunk' = SubSeq(res.body, 1, n)
          /\ res' = [res EXCEPT !.body = SubSeq(res.body, n + 1, Len(res.body))]
    /\ pc' = "write"
    /\ UNCHANGED <<env, file, fileOpen, start, pb, outcome, error, rpc, requests,
                   probed, fileAtProbe, fileAtStart, appended, retries>>

\* WriteChunk with write in the place of write_all: only the first byte of
\* the chunk reaches the file.
WriteChunkFirstByte ==
    /\ pc = "write"
    /\ file' = [file EXCEPT !.data = file.data \o SubSeq(chunk, 1, 1)]
    /\ pb' = [pb EXCEPT !.position = pb.position + Len(chunk)]
    /\ appended' = appended \o chunk
    /\ chunk' = <<>>
    /\ pc' = "chunk"
    /\ UNCHANGED <<env, fileOpen, start, res, outcome, error, rpc, requests,
                   probed, fileAtProbe, fileAtStart, retries>>

\* WriteChunk that puts the chunk in front of the file.
WriteChunkInFront ==
    /\ pc = "write"
    /\ file' = [file EXCEPT !.data = chunk \o file.data]
    /\ pb' = [pb EXCEPT !.position = pb.position + Len(chunk)]
    /\ appended' = appended \o chunk
    /\ chunk' = <<>>
    /\ pc' = "chunk"
    /\ UNCHANGED <<env, fileOpen, start, res, outcome, error, rpc, requests,
                   probed, fileAtProbe, fileAtStart, retries>>

\* WriteChunk without pb.inc.
WriteChunkNoInc ==
    /\ pc = "write"
    /\ file' = [file EXCEPT !.data = file.data \o chunk]
    /\ appended' = appended \o chunk
    /\ chunk' = <<>>
    /\ pc' = "chunk"
    /\ UNCHANGED <<env, fileOpen, start, res, pb, outcome, error, rpc, requests,
                   probed, fileAtProbe, fileAtStart, retries>>

\* Lines 162-163: the chunk is appended whole, then the position advances.
WriteChunk ==
    /\ pc = "write"
    /\ file' = [file EXCEPT !.data = file.data \o chunk]
    /\ pb' = [pb EXCEPT !.position = pb.position + Len(chunk)]
    /\ appended' = appended \o chunk
    /\ chunk' = <<>>
    /\ pc' = "chunk"
    /\ UNCHANGED <<env, fileOpen, start, res, outcome, error, rpc, requests,
                   probed, fileAtProbe, fileAtStart, retries>>

\* WriteError handled like an error of chunk(): the loop is entered again.
WriteErrorRetried ==
    /\ pc = "write"
    /\ retries < MaxRetries
    /\ \E k \in 0..(Len(chunk) - 1) :
          file' = [file EXCEPT !.data = file.data \o SubSeq(chunk, 1, k)]
    /\ retries' = retries + 1
    /\ pc' = "shutdown"
    /\ UNCHANGED <<env, fileOpen, start, res, chunk, pb, outcome, error, rpc,
                   requests, probed, fileAtProbe, fileAtStart, appended>>

\* Line 162: write_all fails after some bytes of the chunk, maybe none; the
\* error is propagated.
WriteError ==
    /\ pc = "write"
    /\ \E k \in 0..(Len(chunk) - 1) :
          file' = [file EXCEPT !.data = file.data \o SubSeq(chunk, 1, k)]
    /\ Return("Failed", Error("io: write"))
    /\ UNCHANGED <<env, start, res, chunk, pb, requests, probed,
                   fileAtProbe, fileAtStart, appended, retries>>

\* Lines 166-170: the body ended.
ChunkNone ==
    /\ pc = "chunk"
    /\ res.body = <<>>
    /\ pb' = Finish(pb)
    /\ Return("Completed", NoError)
    /\ UNCHANGED <<env, file, start, res, chunk, requests, probed,
                   fileAtProbe, fileAtStart, appended, retries>>

\* ChunkError with a limit of one retry: the second error is returned.
ChunkErrorLimited ==
    /\ pc = "chunk"
    /\ retries < MaxRetries
    /\ retries' = retries + 1
    /\ res' = [res EXCEPT !.body = <<>>]
    /\ IF retries >= 1
       THEN /\ Return("Failed", Error("reqwest: body"))
            /\ pb' = pb
       ELSE /\ pb' = [pb EXCEPT !.message = "Restarting download...", !.style = "init"]
            /\ pc' = "shutdown"
            /\ UNCHANGED <<fileOpen, outcome, error, rpc>>
    /\ UNCHANGED <<env, file, start, chunk, requests, probed, fileAtProbe,
                   fileAtStart, appended>>

\* Lines 172-181: chunk() fails; the bar goes back to the initial style and
\* the file is about to be shut down.  The rest of the body is lost.
ChunkError ==
    /\ pc = "chunk"
    /\ retries < MaxRetries
    /\ retries' = retries + 1
    /\ pb' = [pb EXCEPT !.message = "Restarting download...", !.style = "init"]
    /\ res' = [res EXCEPT !.body = <<>>]
    /\ pc' = "shutdown"
    /\ UNCHANGED <<env, file, fileOpen, start, chunk, outcome, error, rpc,
                   requests, probed, fileAtProbe, fileAtStart, appended>>

\* Shutdown left out: the delay starts with the file still open.
ShutdownSkipped ==
    /\ pc = "shutdown"
    /\ pc' = "sleep"
    /\ UNCHANGED <<env, file, fileOpen, start, res, chunk, pb, outcome, error, rpc,
                   requests, probed, fileAtProbe, fileAtStart, appended, retries>>

\* Line 181: the file is flushed and closed.
Shutdown ==
    /\ pc = "shutdown"
    /\ fileOpen' = FALSE
    /\ pc' = "sleep"
    /\ UNCHANGED <<env, file, start, res, chunk, pb, outcome, error, rpc,
                   requests, probed, fileAtProbe, fileAtStart, appended, retries>>

\* Line 181: shutdown fails; the error is propagated.
ShutdownError ==
    /\ pc = "shutdown"
    /\ Return("Failed", Error("io: shutdown"))
    /\ UNCHANGED <<env, file, start, res, chunk, pb, requests, probed,
                   fileAtProbe, fileAtStart, appended, retries>>

\* Lines 184-186: the delay is over, the outer loop starts again.
Sleep ==
    /\ pc = "sleep"
    /\ pc' = "probe"
    /\ UNCHANGED <<env, file, fileOpen, start, res, chunk, pb, outcome, error,
                   rpc, requests, probed, fileAtProbe, fileAtStart, appended, retries>>

(***************************************************************************)
(* The progress reporter task.  It runs while the transfer task awaits;    *)
(* when main returns (or panics) the runtime is dropped and the task with  *)
(* it.                                                                     *)
(***************************************************************************)
\* ReporterTick that advances the position with every tick.
ReporterTickAdvances ==
    /\ pc # "done"
    /\ rpc = "run"
    /\ rpc' = IF pb.finished THEN "exit" ELSE "sleep"
    /\ pb' = [pb EXCEPT !.position = pb.position + 1]
    /\ UNCHANGED <<env, file, fileOpen, pc, start, res, chunk, outcome, error,
                   requests, probed, fileAtProbe, fileAtStart, appended, retries>>

\* Lines 63-65: the loop test, the tick and the start of the delay.
ReporterTick ==
    /\ pc # "done"
    /\ rpc = "run"
    /\ rpc' = IF pb.finished THEN "exit" ELSE "sleep"
    /\ UNCHANGED <<env, file, fileOpen, pc, start, res, chunk, pb, outcome, error,
                   requests, probed, fileAtProbe, fileAtStart, appended, retries>>

\* Line 65: the delay is over.
ReporterWake ==
    /\ pc # "done"
    /\ rpc = "sleep"
    /\ rpc' = "run"
    /\ UNCHANGED <<env, file, fileOpen, pc, start, res, chunk, pb, outcome, error,
                   requests, probed, fileAtProbe, fileAtStart, appended, retries>>

(***************************************************************************)
(* The program is run again on the file the earlier run left.              *)
(***************************************************************************)
Rerun ==
    /\ pc = "done"
    /\ runs + 1 \in Runs
    /\ runs' = runs + 1
    /\ pc' = "probe"
    /\ start' = 0
    /\ res' = NoRes
    /\ chunk' = <<>>
    /\ pb' = InitPb
    /\ outcome' = "none"
    /\ error' = NoError
    /\ rpc' = "run"
    /\ requests' = <<>>
    /\ probed' = <<>>
    /\ fileAtProbe' = file
    /\ fileAtStart' = file
    /\ appended' = <<>>
    /\ retries' = 0
    /\ UNCHANGED <<total, honest, overflowChecks, file, fileOpen>>

Next ==
    \/ Probe
    \/ ProbeError
    \/ Send
    \/ SendError
    \/ Receive
    \/ Open
    \/ OpenError
    \/ ChunkSome
    \/ WriteChunk
    \/ WriteError
    \/ ChunkNone
    \/ ChunkError
    \/ Shutdown
    \/ ShutdownError
    \/ Sleep
    \/ ReporterTick
    \/ ReporterWake
    \/ Rerun

Spec == Init /\ [][Next]_vars

\* The values the state ranges over.
TypeOK ==
    /\ total \in 0..MaxTotal
    /\ pc \in {"probe", "send", "head", "open", "chunk", "write",
               "shutdown", "sleep", "done"}
    /\ outcome \in {"none", "Completed", "Failed", "Panicked"}
    /\ rpc \in {"run", "sleep", "exit", "dropped"}
    /\ Len(file.data) <= U64Max
    /\ (pc = "done") = (outcome # "none")

(***************************************************************************)
(* Properties.                                                             *)
(***************************************************************************)
\* The errors of the local file system and of sending the request.
EnvFaults == {"io: metadata", "reqwest: send", "io: open", "io: write", "io: shutdown"}

EnvFault == outcome = "Failed" /\ error.kind \in EnvFaults

\* The file is absent or holds the first bytes of the resource.
PrefixOfResource(f) ==
    \/ ~f.exists
    \/ /\ Len(f.data) <= total
       /\ f.data = SubSeq(Resource(total), 1, Len(f.data))

\* The parsed Content-Range of the response, when it has one that parses.
HasParsedRange(r) ==
    /\ r.status = PARTIAL_CONTENT
    /\ r.hasCR
    /\ \A i \in 1..Len(r.cr) : r.cr[i] # NonAsciiChar
    /\ FromStr(r.cr).tag = "Ok"

\* C1: every request of the run carries Range: bytes=L-, L being the length
\* of the output file at the probe before that request, 0 when there is no
\* file; while the request is under way the file still has that length.
C1_RangeIsProbedLength ==
    /\ Len(requests) <= Len(probed)
    /\ Len(probed) <= Len(requests) + 1
    /\ \A i \in 1..Len(requests) :
          requests[i] = <<"b", "y", "t", "e", "s", "=">> \o ToDecimal(probed[i]) \o <<"-">>
    /\ pc = "head" =>
          /\ Len(requests) = Len(probed)
          /\ probed[Len(probed)] = Len(file.data)
          /\ (~file.exists => probed[Len(probed)] = 0)

\* A second request went out at the length the first cycle left, above 0,
\* for a file that did not exist when the run started.
C1_Witness ==
    /\ pc = "head"
    /\ ~fileAtStart.exists
    /\ Len(requests) = 2
    /\ probed[1] = 0
    /\ probed[2] > 0
    /\ requests[2] = RangeHeader(Len(file.data))

\* C2: with a server that honours byte ranges, a file that is absent or a
\* prefix of the resource, one mid-stream error and no error of the local
\* file system or of sending, a finished run is Completed and the file holds
\* exactly the resource, byte for byte.
C2_OneFailureEndToEnd ==
    (/\ pc = "done"
     /\ honest
     /\ PrefixOfResource(fileAtStart)
     /\ retries = 1
     /\ ~EnvFault)
    => /\ outcome = "Completed"
       /\ file.exists
       /\ Len(file.data) = total
       /\ file.data = Resource(total)

\* The largest resource was fetched from nothing with an error after some
\* but not all of its bytes.
C2_Witness ==
    /\ pc = "done"
    /\ honest
    /\ ~fileAtStart.exists
    /\ total = MaxTotal
    /\ retries = 1
    /\ Len(probed) = 2
    /\ probed[2] > 0
    /\ probed[2] < total
    /\ outcome = "Completed"
    /\ file.data = Resource(total)

\* C3: an error of chunk() never ends the run: whatever the number of
\* earlier retries, the step leaves the outcome open and goes on to shut the
\* file down; shutting down leads to the delay (or to the failure of the
\* shutdown itself), the delay to the probe, and by the time the response is
\* awaited one request more than there were errors has been sent.
C3_ReadErrorRetried ==
    /\ [][retries' = retries + 1 =>
            /\ pc = "chunk"
            /\ pc' = "shutdown"
            /\ outcome' = "none"
            /\ file' = file]_vars
    /\ [][(pc = "shutdown" /\ pc' # "shutdown") =>
            \/ pc' = "sleep" /\ ~fileOpen' /\ outcome' = "none"
            \/ outcome' = "Failed" /\ error'.kind = "io: shutdown"]_vars
    /\ [][(pc = "sleep" /\ pc' # "sleep") => pc' = "probe"]_vars
    /\ [](pc \in {"head", "open", "chunk", "write"} => Len(requests) = retries + 1)

\* The request after the second error is under way.
C3_Witness ==
    /\ pc = "head"
    /\ retries = 2
    /\ Len(requests) = 3
    /\ outcome = "none"

\* C4 as stated: a failure of the write of a chunk does not end the run as
\* Failed.
C4_WriteFailureNotFailed ==
    ~(outcome = "Failed" /\ error.kind = "io: write")

\* C4 as amended: an error returned by the write of a chunk is fatal.  From
\* the write, the task either has appended the whole chunk and advanced the
\* position by its length, or it ends as Failed with the error of the write,
\* without another request and without entering the retry cycle.
C4_WriteFailureFatal ==
    [][(pc = "write" /\ pc' # "write") =>
          \/ /\ pc' = "chunk"
             /\ file'.data = file.data \o chunk
             /\ pb'.position = pb.position + Len(chunk)
          \/ /\ pc' = "done"
             /\ outcome' = "Failed"
             /\ error'.kind = "io: write"
             /\ requests' = requests
             /\ retries' = retries]_vars

\* A write failed after a part of a chunk of two bytes.
C4_Witness ==
    /\ pc = "done"
    /\ outcome = "Failed"
    /\ error.kind = "io: write"
    /\ Len(chunk) = 2
    /\ Len(file.data) = Len(fileAtProbe.data) + 1

\* C5: after a 206 whose Content-Range parses with a start other than the
\* offset that was asked for, the run is over as Failed with the error of
\* the start check, no further request is sent, the file is not open and is
\* what it was at the probe (absent if it was absent).
C5_StartMismatchFails ==
    (/\ pc \notin {"probe", "send", "head"}
     /\ HasParsedRange(res)
     /\ FromStr(res.cr).start # start)
    => /\ pc = "done"
       /\ outcome = "Failed"
       /\ error.kind = "Server returned invalid start offset"
       /\ ~fileOpen
       /\ file = fileAtProbe
       /\ Len(requests) = retries + 1

\* A start mismatch on the request after a retry, the file holding the
\* bytes of the first cycle only.
C5_Witness ==
    /\ pc = "done"
    /\ HasParsedRange(res)
    /\ FromStr(res.cr).start = start + 1
    /\ retries = 1
    /\ start > 0
    /\ outcome = "Failed"
    /\ file = fileAtProbe

\* C6, as stated: after a 206 whose Content-Range parses with an end other
\* than total - 1, the run is over as Failed with an error value and the
\* file is what it was at the probe.
C6_EndMismatchFails ==
    (/\ pc \notin {"probe", "send", "head"}
     /\ HasParsedRange(res)
     /\ FromStr(res.cr).end # FromStr(res.cr).total - 1)
    => /\ pc = "done"
       /\ outcome = "Failed"
       /\ error.kind # "none"
       /\ ~fileOpen
       /\ file = fileAtProbe

\* C7: after a 416, at any offset, the run is over as Completed, the bar is
\* finished, the file is not open and is what it was at the probe: not
\* created, not extended, not truncated.
C7_RangeNotSatisfiableCompletes ==
    (pc \notin {"probe", "send", "head"} /\ res.status = RANGE_NOT_SATISFIABLE)
    => /\ pc = "done"
       /\ outcome = "Completed"
       /\ pb.finished
       /\ ~fileOpen
       /\ file = fileAtProbe

\* A 416 for the request at offset 0 of a run without output file.
C7_Witness ==
    /\ pc = "done"
    /\ res.status = RANGE_NOT_SATISFIABLE
    /\ start = 0
    /\ ~fileAtStart.exists
    /\ ~file.exists
    /\ outcome = "Completed"
    /\ pb.finished

\* C8: a run (the first or the second) that starts on a file holding the
\* whole resource, with a server that honours byte ranges and no error of
\* the local file system or of sending, sends exactly one request, gets 416,
\* ends Completed and leaves the file as it was.
C8_Idempotent ==
    (/\ pc = "done"
     /\ honest
     /\ fileAtStart = File(TRUE, Resource(total))
     /\ ~EnvFault)
    => /\ Len(requests) = 1
       /\ requests[1] = <<"b", "y", "t", "e", "s", "=">> \o ToDecimal(total) \o <<"-">>
       /\ res.status = RANGE_NOT_SATISFIABLE
       /\ outcome = "Completed"
       /\ file = fileAtStart

\* The second run on a complete file of the largest resource.
C8_Witness ==
    /\ pc = "done"
    /\ runs = 2
    /\ honest
    /\ total = MaxTotal
    /\ fileAtStart = File(TRUE, Resource(total))
    /\ outcome = "Completed"
    /\ Len(requests) = 1
    /\ file = fileAtStart

\* C9: after a response whose status is neither 206 nor 416 the run is over
\* as Failed with that status in the error, no further request is sent, the
\* file is not open and is what it was at the probe.
C9_OtherStatusFails ==
    (/\ pc \notin {"probe", "send", "head"}
     /\ res # NoRes
     /\ res.status \notin {PARTIAL_CONTENT, RANGE_NOT_SATISFIABLE})
    => /\ pc = "done"
       /\ outcome = "Failed"
       /\ error = StatusError(res.status)
       /\ ~fileOpen
       /\ file = fileAtProbe
       /\ Len(requests) = retries + 1

\* A 404 for the request after a retry.
C9_Witness ==
    /\ pc = "done"
    /\ res.status = StatusNotFound
    /\ retries = 1
    /\ Len(requests) = 2
    /\ outcome = "Failed"
    /\ error.code = StatusNotFound

\* The Content-Range of a response is of the form bytes <n>-<n>/<n>: the
\* prefix, then exactly three fields, each one or more digits.
WellFormedRange(r) ==
    /\ r.hasCR
    /\ StripPrefix(r.cr) # NoneStr
    /\ LET fields == Split(StripPrefix(r.cr)) IN
       /\ Len(fields) = 3
       /\ \A i \in 1..3 :
             /\ Len(fields[i]) > 0
             /\ \A j \in 1..Len(fields[i]) : IsDigit(fields[i][j])

\* C10, as stated: after a 206 whose Content-Range is absent or malformed
\* the run is over as Failed with an error and the file is what it was at
\* the probe.
C10_MalformedRangeFails ==
    (/\ pc \notin {"probe", "send", "head"}
     /\ res.status = PARTIAL_CONTENT
     /\ ~WellFormedRange(res))
    => /\ pc = "done"
       /\ outcome = "Failed"
       /\ error.kind # "none"
       /\ ~fileOpen
       /\ file = fileAtProbe

\* C11, as stated: when the body of a validated 206 has ended without
\* error the run is Completed and the file is as long as the total of that
\* response's Content-Range.
C11_EndOfStreamLengthIsTotal ==
    (pc = "done" /\ res.status = PARTIAL_CONTENT /\ outcome = "Completed")
    => /\ file.exists
       /\ Len(file.data) = FromStr(res.cr).total

\* The bytes of a run that started on a file of length L0: L0 plus the
\* bytes of the chunks written.
StreamedLength == Len(fileAtStart.data) + Len(appended)

\* C12: from a mid-stream error to the next response, the file is exactly
\* as long as it was at the start of the run plus the N bytes streamed (N
\* alone when the run started without file or on an empty one), and the
\* request after the error asks for exactly that offset.
C12_LengthAndOffsetAfterFailure ==
    (retries >= 1 /\ pc \in {"shutdown", "sleep", "probe", "send", "head"})
    => /\ Len(file.data) = StreamedLength
       /\ (Len(fileAtStart.data) = 0 => Len(file.data) = Len(appended))
       /\ pc = "head" =>
             /\ RequestedOffset(requests[Len(requests)]) = StreamedLength
             /\ start = StreamedLength

\* Two bytes were streamed into a file that did not exist, then the stream
\* failed, and the next request asks for offset 2.
C12_Witness ==
    /\ pc = "head"
    /\ retries = 1
    /\ ~fileAtStart.exists
    /\ Len(appended) = 2
    /\ Len(file.data) = 2
    /\ requests[Len(requests)] = <<"b", "y", "t", "e", "s", "=", "2", "-">>

\* s is the beginning of t.
IsPrefix(s, t) == Len(s) <= Len(t) /\ s = SubSeq(t, 1, Len(s))

\* C13, as stated: in every state the file holds what it held at the start
\* of the run followed by the chunks written so far, in the order received.
C13_FileIsInitialPlusChunks ==
    file.data = fileAtStart.data \o appended

\* C13 as amended: the file holds what it held at the start of the run,
\* then the chunks written whole, in the order received, then, only after a
\* write that failed, a part of the chunk of that write; and no step,
\* within a run or from one run to the next, removes the file, truncates it
\* or changes a byte it holds.
C13_FileIsAppendOnly ==
    /\ [](IF outcome = "Failed" /\ error.kind = "io: write"
          THEN \E k \in 0..(Len(chunk) - 1) :
                  file.data = fileAtStart.data \o appended \o SubSeq(chunk, 1, k)
          ELSE file.data = fileAtStart.data \o appended)
    /\ [](Len(file.data) >= Len(fileAtStart.data) + Len(appended))
    /\ [][/\ IsPrefix(file.data, file'.data)
          /\ (file.exists => file'.exists)]_vars

\* After a retry, three bytes in three chunks have followed the byte the
\* file held at the start.
C13_Witness ==
    /\ retries >= 1
    /\ Len(fileAtStart.data) = 1
    /\ Len(appended) >= 2
    /\ Len(probed) >= 2
    /\ probed[2] > probed[1]
    /\ file.data = fileAtStart.data \o appended
    /\ pc = "chunk"

\* C14, as stated: a Content-Range that passed the validation (the task
\* goes on to open the file and to stream) has start <= end < total.
C14_ValidatedRangeIsOrdered ==
    (pc \in {"open", "chunk", "write"})
    => /\ FromStr(res.cr).start <= FromStr(res.cr).end
       /\ FromStr(res.cr).end < FromStr(res.cr).total

\* C15, as stated: within a run no step lowers the position of the
\* progress bar.
C15_PositionNeverDecreases ==
    [][runs' = runs => pb'.position >= pb.position]_vars

\* What the transfer task owns: everything but the place of the reporter.
transferVars == <<total, honest, overflowChecks, file, fileOpen, pc, start, res,
                  chunk, pb, outcome, error, requests, probed, fileAtProbe,
                  fileAtStart, appended, retries, runs>>

\* A step of the transfer task.
TransferNext ==
    \/ Probe \/ ProbeError \/ Send \/ SendError \/ Receive \/ Open \/ OpenError
    \/ ChunkSome \/ WriteChunk \/ WriteError \/ ChunkNone \/ ChunkError
    \/ Shutdown \/ ShutdownError \/ Sleep

\* C16: a step of the reporter (the test and the tick, or the end of its
\* delay) changes nothing but the place of the reporter: not the position,
\* the length or the finished flag of the bar, not the file, not the place
\* or the outcome of the transfer; the bar changes only in steps in which
\* the transfer task moves; and wherever the reporter is, the transfer task
\* can take its next step as long as the run is not over.  So every run
\* with the reporter is, step by step, a run of the transfer alone.
C16_ReporterDoesNotInterfere ==
    /\ [][(rpc' # rpc /\ rpc' \in {"run", "sleep", "exit"} /\ runs' = runs)
            => UNCHANGED transferVars]_vars
    /\ [][pb' # pb => pc' # pc]_vars
    /\ [][file' # file => (pc \in {"open", "write"} /\ pc' # pc)]_vars
    /\ [](pc # "done" => ENABLED TransferNext)

\* The reporter waits in its delay while a chunk is about to be written,
\* the position being above 0.
C16_Witness ==
    /\ rpc = "sleep"
    /\ pc = "write"
    /\ pb.position > 0
    /\ retries = 1

\* C17: after a mid-stream error the file is shut before the delay and the
\* probe: the handle is open while the error is handled and closed in
\* every state of the delay, the probe and the request that follow; and the
\* probe after the error counts every byte appended before it.
C17_ClosedBeforeDelayAndProbe ==
    /\ pc \in {"sleep", "probe", "send", "head"} => ~fileOpen
    /\ pc = "shutdown" => fileOpen
    /\ (retries >= 1 /\ pc \in {"send", "head"}) =>
          /\ probed[Len(probed)] = Len(fileAtStart.data) + Len(appended)
          /\ start = Len(file.data)

\* The probe after the second error found the three bytes written before.
C17_Witness ==
    /\ pc = "send"
    /\ retries = 2
    /\ ~fileOpen
    /\ Len(appended) = 3
    /\ probed[Len(probed)] = Len(fileAtStart.data) + 3

\* C19: when send() fails, on the first request or on one after a retry,
\* the run is over as Failed with that error, nothing was received, the
\* file is not open and is what it was at the probe; from the wait for the
\* response the task never goes back to the delay or the probe, and there
\* is never more than one request per mid-stream error, plus the first.
C19_SendFailureFatal ==
    /\ [](error.kind = "reqwest: send" =>
            /\ pc = "done"
            /\ outcome = "Failed"
            /\ res = NoRes
            /\ ~fileOpen
            /\ file = fileAtProbe
            /\ Len(requests) = retries + 1)
    /\ [](Len(requests) <= retries + 1)
    /\ [][(pc = "head" /\ pc' # "head") => pc' \in {"open", "done"}]_vars
    /\ [][retries' = retries + 1 => pc = "chunk"]_vars

\* The request after a mid-stream error could not be sent.
C19_Witness ==
    /\ pc = "done"
    /\ outcome = "Failed"
    /\ error.kind = "reqwest: send"
    /\ retries = 1
    /\ Len(requests) = 2
    /\ Len(file.data) > 0

\* C20: between chunks, and right after the validation, the position of
\* the bar is the length of the file and the length of the bar is the total
\* of the Content-Range that was validated in this cycle.
C20_PositionIsFileLength ==
    (pc \in {"open", "chunk"})
    => /\ pb.position = Len(file.data)
       /\ pb.length = FromStr(res.cr).total
       /\ pb.style = "downloading"

\* In the cycle after a retry, two chunks have been written.
C20_Witness ==
    /\ pc = "chunk"
    /\ retries = 1
    /\ start > 0
    /\ pb.position = start + 2
    /\ pb.position = Len(file.data)
    /\ pb.length = total

(***************************************************************************)
(* Liveness.  The server honours byte ranges, the local file operations    *)
(* succeed and every request is sent and answered: the steps that stand    *)
(* for their failure are left out.  Mid-stream errors still happen, at any *)
(* point, at most MaxRetries times in a run.  The transfer task is the     *)
(* main future of the runtime: it is polled again whenever the operation   *)
(* it awaits has completed, so a step of it that stays possible is taken.  *)
(***************************************************************************)
LiveInit == Init /\ honest

FaultFreeNext ==
    \/ Probe
    \/ Send
    \/ Receive
    \/ Open
    \/ ChunkSome
    \/ WriteChunk
    \/ ChunkNone
    \/ ChunkError
    \/ Shutdown
    \/ Sleep
    \/ ReporterTick
    \/ ReporterWake
    \/ Rerun

\* The steps of the transfer task other than the failures.
TransferProgress ==
    \/ Probe \/ Send \/ Receive \/ Open \/ ChunkSome \/ WriteChunk \/ ChunkNone
    \/ Shutdown \/ Sleep

LiveSpec == LiveInit /\ [][FaultFreeNext]_vars /\ WF_vars(TransferProgress)

\* C18: with a server that honours byte ranges, no failure of the local
\* file operations or of sending, and finitely many mid-stream errors, every
\* run that is under way leads to Completed, and no run ends as Failed or
\* with a panic.
C18_EventuallyCompleted ==
    /\ (outcome = "none") ~> (outcome = "Completed")
    /\ [](outcome \in {"none", "Completed"})

\* The largest resource was fetched from nothing in spite of as many
\* mid-stream errors as the model allows.
C18_Witness ==
    /\ pc = "done"
    /\ outcome = "Completed"
    /\ ~fileAtStart.exists
    /\ retries = MaxRetries
    /\ total = MaxTotal
    /\ file.data = Resource(total)

=============================================================================
